---- MODULE Spec2Model ----
(***************************************************************************)
(* The WebRTC signaling harness of src/README.md (the WebRtcTest React     *)
(* component, second listing, lines 335-753) as a state machine.           *)
(*                                                                         *)
(* One browser tab is modelled.  The message bus, the REST endpoint, the   *)
(* user and the RTCPeerConnection primitive are the environment: the bus   *)
(* may deliver any notification or signal, the user may click any enabled  *)
(* button, and every primitive operation may succeed or fail.              *)
(*                                                                         *)
(* JavaScript runs each handler to its next `await` without interruption,  *)
(* so an action is either the delivery of an event (running the handler    *)
(* up to its first await) or the settling of a pending primitive promise   *)
(* (running the continuation up to the next await).                        *)
(*                                                                         *)
(* React state (callId, peerUsername) is read by a handler from the render *)
(* in which the handler was created.  Buttons use the latest render.  The  *)
(* bus callbacks onSignal/onCallNotif are the ones of the render in which  *)
(* connect() ran: handlerEnv holds that render's callId and peerUsername.  *)
(* Refs (pcRef, dcRef, hasRemoteRef, pendingIceRef, stompRef) are shared.  *)
(***************************************************************************)
EXTENDS Integers, Sequences, FiniteSets, TLC

\* ---------------------------------------------------------------- bounds
MaxPc == 2       \* peer connections ever created
MaxTasks == 2    \* async handlers suspended at the same time
MaxCand == 3     \* inbound ICE candidates accepted (arrival stamps 1..MaxCand)
MaxEvents == 7   \* environment events (clicks, edits, bus deliveries)

\* ------------------------------------------------------------- constants
Null == 0                       \* a ref holding null
Me == "me"
PeerNames == {"bob"}            \* identities the user or a notification names
Users == {"bob", "eve"}         \* senders of inbound signals
CallIds == {"c1", "c2"}
Absent == "absent"              \* a JSON field that is missing

NoEnv == [callId |-> "", peerUsername |-> ""]
Idle == [callId |-> Absent, peerUsername |-> Absent]   \* no createCall() pending
NoSettle == [kind |-> "none", at |-> "none", ok |-> TRUE]   \* the step settled no promise

NotifTypes == {"INCOMING_CALL", "CALL_ACCEPTED", "CALL_REJECTED", "CALL_ENDED"}

\* Inbound SigMsg payloads.  The candidate of an ICE_CANDIDATE message is
\* its arrival stamp, given on delivery.
SignalMessages ==
  [type : {"OFFER"}, callId : CallIds, fromUserId : Users]
    \cup [type : {"ANSWER", "ICE_CANDIDATE"}, callId : CallIds, fromUserId : PeerNames]

\* Inbound call notifications.
NotifMessages ==
  [type : NotifTypes, callId : CallIds,
   parties : {<<Me, "bob">>, <<"bob", Me>>, <<Absent, Absent>>}]

VARIABLES
  callId,         \* useState callId of the latest render
  peerUsername,   \* useState peerUsername of the latest render
  connected,      \* useState connected
  stompRef,       \* "null" | "inactive" (activated, no session) | "connected"
  subs,           \* destinations subscribed on the current STOMP session
  handlerEnv,     \* render scope captured by the subscribed callbacks
  pcRef,          \* index into pcs, or Null
  dcRef,          \* index of the pc whose data channel it holds, or Null
  hasRemoteRef,
  pendingIceRef,
  pcs,            \* every RTCPeerConnection ever created, in creation order
  tasks,          \* async handlers suspended on a primitive promise
  outbox,         \* frames published to the bus, in order
  nextCand,       \* arrival stamp of the next accepted inbound candidate
  endedCalls,     \* callIds ended locally or by CALL_ENDED / CALL_REJECTED
  endsInRow,      \* consecutive end() invocations just made (capped at 2)
  createCallEnv,  \* render scope of a createCall() awaiting its response
  sessions,       \* STOMP sessions established so far (onConnect calls)
  lastSettled,    \* the promise settled by the latest step, if it was one
  events          \* environment events so far

vars == <<callId, peerUsername, connected, stompRef, subs, handlerEnv,
          pcRef, dcRef, hasRemoteRef, pendingIceRef, pcs, tasks, outbox,
          nextCand, endedCalls, endsInRow, createCallEnv, sessions,
          lastSettled, events>>

busVars == <<connected, stompRef, subs, handlerEnv>>
formVars == <<callId, peerUsername, createCallEnv>>
rtcVars == <<pcRef, dcRef, hasRemoteRef, pendingIceRef, pcs, tasks>>

\* The scope of the latest render.
Render == [callId |-> callId, peerUsername |-> peerUsername]

Init ==
  /\ callId = ""
  /\ peerUsername = ""
  /\ connected = FALSE
  /\ stompRef = "null"
  /\ subs = {}
  /\ handlerEnv = NoEnv
  /\ pcRef = Null
  /\ dcRef = Null
  /\ hasRemoteRef = FALSE
  /\ pendingIceRef = <<>>
  /\ pcs = <<>>
  /\ tasks = <<>>
  /\ outbox = <<>>
  /\ nextCand = 1
  /\ endedCalls = {}
  /\ endsInRow = 0
  /\ createCallEnv = Idle
  /\ sessions = 0
  /\ lastSettled = NoSettle
  /\ events = 0

\* An environment event is offered while the budget lasts.
Tick == events < MaxEvents /\ events' = events + 1

RemoveAt(s, i) == [j \in 1..(Len(s) - 1) |-> IF j < i THEN s[j] ELSE s[j + 1]]

\* ------------------------------------------------- RTCPeerConnection

\* new RTCPeerConnection(...) inside ensurePc.  cid and peer are the callId
\* and peerUsername its onicecandidate callback closed over, got the inbound
\* candidates onSignal accepted while holding it, ice its addIceCandidate calls.
NewPc(isCaller, env) ==
  [cid |-> env.callId, peer |-> env.peerUsername, caller |-> isCaller,
   closes |-> 0, remote |-> FALSE, local |-> FALSE, sig |-> "stable", ice |-> <<>>,
   got |-> <<>>,
   early |-> FALSE, dc |-> IF isCaller THEN "open" ELSE "none", dcCloses |-> 0]

\* Mutant of ensurePc: `if (pcRef.current) return pcRef.current` is missing.
ensurePc_alwaysNew(isCaller, env) ==
  [pc |-> Len(pcs) + 1,
   pcs |-> Append(pcs, NewPc(isCaller, env)),
   dcRef |-> IF isCaller THEN Len(pcs) + 1 ELSE dcRef]

\* ensurePc(isCaller): the connection to use, and the refs after the call.
ensurePc(isCaller, env) ==
  IF pcRef # Null
    THEN [pc |-> pcRef, pcs |-> pcs, dcRef |-> dcRef]
    ELSE [pc |-> Len(pcs) + 1,
          pcs |-> Append(pcs, NewPc(isCaller, env)),
          dcRef |-> IF isCaller THEN Len(pcs) + 1 ELSE dcRef]

CanEnsure == pcRef # Null \/ Len(pcs) < MaxPc

\* pc.addIceCandidate(c) is called on connection p of ps: the call is
\* logged with its call site (via: "drain" in drainIce, "direct" in onSignal),
\* and early records a call made before a remote description.
addIceCandidate(ps, p, c, via) ==
  [ps EXCEPT ![p].ice = Append(@, [c |-> c, via |-> via]),
             ![p].early = @ \/ ~ps[p].remote]

\* Mutant of closeAll: teardownPc() without the two close() calls.
closeAll_noClose == pcs

\* teardownPc(): close the channel and the connection, clear the refs.
closeAll ==
  [i \in DOMAIN pcs |->
     [pcs[i] EXCEPT
        !.closes = IF i = pcRef THEN @ + 1 ELSE @,
        !.dcCloses = IF i = dcRef THEN @ + 1 ELSE @,
        !.dc = IF i = dcRef \/ i = pcRef THEN (IF @ = "none" THEN "none" ELSE "closed") ELSE @]]

\* Mutant of teardownPc: `hasRemoteRef.current = false` is missing.
teardownPc_keepsRemote ==
  /\ pcs' = closeAll
  /\ dcRef' = Null
  /\ pcRef' = Null
  /\ hasRemoteRef' = hasRemoteRef
  /\ pendingIceRef' = <<>>

\* Mutant of teardownPc: the refs are not set to null after close().
teardownPc_keepsRefs ==
  /\ pcs' = closeAll
  /\ dcRef' = dcRef
  /\ pcRef' = pcRef
  /\ hasRemoteRef' = FALSE
  /\ pendingIceRef' = <<>>

teardownPc ==
  /\ pcs' = closeAll
  /\ dcRef' = Null
  /\ pcRef' = Null
  /\ hasRemoteRef' = FALSE
  /\ pendingIceRef' = <<>>

\* ------------------------------------------------------- the bus client

\* send(dest, body): stompRef.current?.publish(...).  With no client the
\* optional chaining skips the call; a client without a session throws
\* from publish, and nothing is sent either.
send(frame) ==
  outbox' = IF stompRef = "connected" THEN Append(outbox, frame) ELSE outbox

Frame(dest, id, to, sdp) ==
  [dest |-> dest, callId |-> id, toUserId |-> to, sdp |-> sdp]

\* connect(): a new client whose callbacks are this render's onCallNotif
\* and onSignal.  The button is shown while connected is false; a click
\* while an earlier client is still reconnecting is left out.
connect ==
  /\ Tick
  /\ ~connected /\ stompRef = "null"
  /\ stompRef' = "inactive"
  /\ handlerEnv' = Render
  /\ endsInRow' = 0
  /\ lastSettled' = NoSettle
  /\ sessions' = sessions
  /\ UNCHANGED <<connected, subs, formVars, rtcVars, outbox, nextCand, endedCalls>>

\* client.onConnect, on the first session and on every reconnect.
onConnect ==
  /\ Tick
  /\ stompRef = "inactive"
  /\ stompRef' = "connected"
  /\ connected' = TRUE
  /\ subs' = {"/user/queue/call-notifications", "/user/queue/webrtc-signals"}
  /\ sessions' = sessions + 1
  /\ endsInRow' = 0
  /\ lastSettled' = NoSettle
  /\ UNCHANGED <<handlerEnv, formVars, rtcVars, outbox, nextCand, endedCalls>>

\* client.onWebSocketClose: the session and its subscriptions are gone,
\* the client stays active and reconnects after reconnectDelay.
onWebSocketClose ==
  /\ Tick
  /\ stompRef = "connected"
  /\ stompRef' = "inactive"
  /\ connected' = FALSE
  /\ subs' = {}
  /\ endsInRow' = 0
  /\ lastSettled' = NoSettle
  /\ sessions' = sessions
  /\ UNCHANGED <<handlerEnv, formVars, rtcVars, outbox, nextCand, endedCalls>>

\* client.onStompError only logs.
onStompError ==
  /\ Tick
  /\ stompRef = "connected"
  /\ endsInRow' = 0
  /\ lastSettled' = NoSettle
  /\ sessions' = sessions
  /\ UNCHANGED <<busVars, formVars, rtcVars, outbox, nextCand, endedCalls>>

\* Mutant of disconnect: it also tears the peer connection down.
disconnect_teardown ==
  /\ Tick
  /\ connected
  /\ stompRef' = "null"
  /\ connected' = FALSE
  /\ subs' = {}
  /\ handlerEnv' = NoEnv
  /\ teardownPc
  /\ endsInRow' = 0
  /\ lastSettled' = NoSettle
  /\ sessions' = sessions
  /\ UNCHANGED <<formVars, tasks, outbox, nextCand, endedCalls>>

disconnect ==
  /\ Tick
  /\ connected
  /\ stompRef' = "null"
  /\ connected' = FALSE
  /\ subs' = {}
  /\ handlerEnv' = NoEnv
  /\ endsInRow' = 0
  /\ lastSettled' = NoSettle
  /\ sessions' = sessions
  /\ UNCHANGED <<formVars, rtcVars, outbox, nextCand, endedCalls>>

\* ------------------------------------------------------ the form fields

\* <input value={callId} onChange={(e) => setCallId(e.target.value)}>
editCallId(v) ==
  /\ Tick
  /\ v # callId
  /\ callId' = v
  /\ endsInRow' = 0
  /\ lastSettled' = NoSettle
  /\ sessions' = sessions
  /\ UNCHANGED <<peerUsername, createCallEnv, busVars, rtcVars, outbox, nextCand, endedCalls>>

\* <input value={peerUsername} onChange={(e) => setPeerUsername(...)}>
editPeerUsername(v) ==
  /\ Tick
  /\ v # peerUsername
  /\ peerUsername' = v
  /\ endsInRow' = 0
  /\ lastSettled' = NoSettle
  /\ sessions' = sessions
  /\ UNCHANGED <<callId, createCallEnv, busVars, rtcVars, outbox, nextCand, endedCalls>>

\* ------------------------------------------------------- call control

\* createCall() up to `await fetch(...)`.
createCall ==
  /\ Tick
  /\ connected
  /\ createCallEnv = Idle
  /\ createCallEnv' = Render
  /\ endsInRow' = 0
  /\ lastSettled' = NoSettle
  /\ sessions' = sessions
  /\ UNCHANGED <<callId, peerUsername, busVars, rtcVars, outbox, nextCand, endedCalls>>

\* createCall() after the response: id = data.id ?? data.callId ?? callId,
\* and the recipient is taken when this render had no peerUsername.
createCallResponse(ok, id, recipient) ==
  /\ createCallEnv # Idle
  /\ createCallEnv' = Idle
  /\ LET useId == IF id # Absent THEN id ELSE createCallEnv.callId IN
     /\ callId' = IF ok /\ useId # "" THEN useId ELSE callId
     /\ peerUsername' = IF ok /\ createCallEnv.peerUsername = "" /\ recipient # Absent
                          THEN recipient ELSE peerUsername
  /\ endsInRow' = 0
  /\ lastSettled' = NoSettle
  /\ sessions' = sessions
  /\ UNCHANGED <<busVars, rtcVars, outbox, nextCand, endedCalls, events>>

accept ==
  /\ Tick
  /\ connected /\ callId # ""
  /\ send(Frame("/call.accept", callId, "", Null))
  /\ endsInRow' = 0
  /\ lastSettled' = NoSettle
  /\ sessions' = sessions
  /\ UNCHANGED <<busVars, formVars, rtcVars, nextCand, endedCalls>>

reject ==
  /\ Tick
  /\ connected /\ callId # ""
  /\ send(Frame("/call.reject", callId, "", Null))
  /\ endsInRow' = 0
  /\ lastSettled' = NoSettle
  /\ sessions' = sessions
  /\ UNCHANGED <<busVars, formVars, rtcVars, nextCand, endedCalls>>

end ==
  /\ Tick
  /\ connected /\ callId # ""
  /\ send(Frame("/call.end", callId, "", Null))
  /\ teardownPc
  /\ endedCalls' = endedCalls \cup {callId}
  /\ endsInRow' = IF endsInRow < 2 THEN endsInRow + 1 ELSE 2
  /\ lastSettled' = NoSettle
  /\ sessions' = sessions
  /\ UNCHANGED <<busVars, formVars, tasks, nextCand>>

\* other = otherParticipant ?? (callerId === me ? recipientId : callerId)
\*           ?? callerId ?? recipientId
NotifOther(n) ==
  LET callerId == n.parties[1]
      recipientId == n.parties[2]
      x == IF callerId = Me THEN recipientId ELSE callerId
  IN IF x # Absent THEN x ELSE IF callerId # Absent THEN callerId ELSE recipientId

onCallNotif(n) ==
  /\ Tick
  /\ stompRef = "connected" /\ "/user/queue/call-notifications" \in subs
  /\ callId' = n.callId
  /\ peerUsername' = IF NotifOther(n) # Absent THEN NotifOther(n) ELSE peerUsername
  /\ endedCalls' = IF n.type \in {"CALL_ENDED", "CALL_REJECTED"}
                     THEN endedCalls \cup {n.callId} ELSE endedCalls
  /\ endsInRow' = 0
  /\ lastSettled' = NoSettle
  /\ sessions' = sessions
  /\ UNCHANGED <<createCallEnv, busVars, rtcVars, outbox, nextCand>>

\* --------------------------------------------------- signaling handlers

\* One call of a primitive by a handler; c is the candidate, if any.
Call(op, c) == [op |-> op, c |-> c]

\* startOffer() handles a click, not a payload.
Click == [type |-> "startOffer", callId |-> Absent, fromUserId |-> Absent]

\* A suspended handler of payload m: the payload's type, callId (id) and
\* sender (from), the connection and the primitive it awaits (at), the rest
\* of drainIce's queue, its render scope, the queue drainIce took (spliced)
\* and the primitives it has called (did).
Task(m, pc, at, queue, env) ==
  [kind |-> m.type, id |-> m.callId, from |-> m.fromUserId,
   pc |-> pc, at |-> at, queue |-> queue, env |-> env,
   spliced |-> <<>>, did |-> <<Call(at, Null)>>]

\* onSignal, OFFER and ANSWER branches up to `await pc.setRemoteDescription`.
onSignalDescription(m) ==
  /\ CanEnsure /\ Len(tasks) < MaxTasks
  /\ LET e == ensurePc(FALSE, handlerEnv) IN
     /\ pcRef' = e.pc
     /\ dcRef' = e.dcRef
     /\ pcs' = e.pcs
     /\ tasks' = Append(tasks, Task(m, e.pc, "setRemoteDescription", <<>>, handlerEnv))
  /\ UNCHANGED <<hasRemoteRef, pendingIceRef, nextCand>>

\* onSignal, ICE_CANDIDATE branch: buffered, or applied up to its await.
onSignalCandidate(m) ==
  /\ CanEnsure /\ nextCand <= MaxCand
  /\ hasRemoteRef => Len(tasks) < MaxTasks
  /\ LET e == ensurePc(FALSE, handlerEnv) IN
     /\ pcRef' = e.pc
     /\ dcRef' = e.dcRef
     /\ IF ~hasRemoteRef
          THEN /\ pendingIceRef' = Append(pendingIceRef, nextCand)
               /\ pcs' = [e.pcs EXCEPT ![e.pc].got = Append(@, nextCand)]
               /\ tasks' = tasks
          ELSE /\ pendingIceRef' = pendingIceRef
               /\ pcs' = addIceCandidate([e.pcs EXCEPT ![e.pc].got = Append(@, nextCand)],
                                          e.pc, nextCand, "direct")
               /\ tasks' = Append(tasks,
                    [Task(m, e.pc, "addIceCandidate", <<>>, handlerEnv)
                       EXCEPT !.did = <<Call("addIceCandidate", nextCand)>>])
  /\ nextCand' = nextCand + 1
  /\ UNCHANGED hasRemoteRef

\* The filter of onSignal: `payload.callId !== callId` reads the callId of
\* the render the callback was created in.
Matches(m) == m.callId = handlerEnv.callId

onSignal(m) ==
  /\ Tick
  /\ stompRef = "connected" /\ "/user/queue/webrtc-signals" \in subs
  /\ IF ~Matches(m)
       THEN UNCHANGED <<rtcVars, nextCand>>
       ELSE IF m.type = "ICE_CANDIDATE"
              THEN onSignalCandidate(m)
              ELSE onSignalDescription(m)
  /\ endsInRow' = 0
  /\ lastSettled' = NoSettle
  /\ sessions' = sessions
  /\ UNCHANGED <<busVars, formVars, outbox, endedCalls>>

\* startOffer() up to `await pc.createOffer()`.
startOffer ==
  /\ Tick
  /\ connected /\ callId # ""
  /\ IF peerUsername = ""
       THEN UNCHANGED rtcVars
       ELSE /\ CanEnsure /\ Len(tasks) < MaxTasks
            /\ LET e == ensurePc(TRUE, Render) IN
               /\ pcRef' = e.pc
               /\ dcRef' = e.dcRef
               /\ pcs' = e.pcs
               /\ tasks' = Append(tasks, Task(Click, e.pc, "createOffer", <<>>, Render))
            /\ UNCHANGED <<hasRemoteRef, pendingIceRef>>
  /\ endsInRow' = 0
  /\ lastSettled' = NoSettle
  /\ sessions' = sessions
  /\ UNCHANGED <<busVars, formVars, outbox, nextCand, endedCalls>>

\* pc.ondatachannel on a connection made with isCaller = false: the remote
\* peer's channel arrives once the connection is negotiated.
ondatachannel(p) ==
  /\ Tick
  /\ p \in DOMAIN pcs
  /\ pcs[p].closes = 0 /\ ~pcs[p].caller /\ pcs[p].dc = "none"
  /\ pcs[p].remote /\ pcs[p].sig = "stable"
  /\ pcs' = [pcs EXCEPT ![p].dc = "open"]
  /\ dcRef' = p
  /\ endsInRow' = 0
  /\ lastSettled' = NoSettle
  /\ sessions' = sessions
  /\ UNCHANGED <<pcRef, hasRemoteRef, pendingIceRef, tasks, busVars, formVars,
                 outbox, nextCand, endedCalls>>

\* pc.onicecandidate: a connection with a local description gathers a
\* candidate.  The callback is the one ensurePc installed: it reads the
\* callId and peerUsername of the render the connection was created in.
onicecandidate(p) ==
  /\ Tick
  /\ p \in DOMAIN pcs
  /\ pcs[p].closes = 0 /\ pcs[p].local
  /\ IF pcs[p].peer = ""
       THEN UNCHANGED outbox
       ELSE send(Frame("/webrtc.ice", pcs[p].cid, pcs[p].peer, Null))
  /\ endsInRow' = 0
  /\ lastSettled' = NoSettle
  /\ sessions' = sessions
  /\ UNCHANGED <<rtcVars, busVars, formVars, nextCand, endedCalls>>

\* ------------------------------------------- continuations after await

Done(i) == RemoveAt(tasks, i)

\* What the primitive accepts in the connection's signaling state.
Legal(t) ==
  LET sig == pcs[t.pc].sig IN
  CASE t.at = "setRemoteDescription" -> t.kind = "OFFER" \/ sig = "have-local-offer"
    [] t.at = "createAnswer" -> sig = "have-remote-offer"
    [] t.at = "setLocalDescription" ->
         IF t.kind = "OFFER" THEN sig = "have-remote-offer"
                             ELSE sig \in {"stable", "have-local-offer"}
    [] t.at \in {"drainIce", "addIceCandidate"} -> pcs[t.pc].remote
    [] OTHER -> TRUE

\* Mutant of drainIce: the loop stops after its first candidate.
drainIce_firstOnly(ps, i, queue) ==
  LET t == tasks[i]
      taken == IF t.at = "setRemoteDescription" THEN queue ELSE t.spliced
  IN
  IF queue # <<>> /\ t.at = "setRemoteDescription"
    THEN /\ pcs' = addIceCandidate(ps, t.pc, Head(queue), "drain")
         /\ tasks' = [tasks EXCEPT ![i] =
                        [t EXCEPT !.at = "drainIce", !.queue = <<>>, !.spliced = taken,
                                  !.did = Append(@, Call("addIceCandidate", Head(queue)))]]
    ELSE /\ pcs' = ps
         /\ tasks' = IF t.kind = "OFFER"
                       THEN [tasks EXCEPT ![i] =
                               [t EXCEPT !.at = "createAnswer", !.queue = <<>>, !.spliced = taken,
                                         !.did = Append(@, Call("createAnswer", Null))]]
                       ELSE Done(i)

\* drainIce(pc): on entry (the handler comes from setRemoteDescription) queue
\* is what splice(0) took; in the loop the next queued candidate is applied,
\* and after the last one the caller of drainIce goes on (OFFER: createAnswer).
drainIce(ps, i, queue) ==
  LET t == tasks[i]
      taken == IF t.at = "setRemoteDescription" THEN queue ELSE t.spliced
  IN
  IF queue # <<>>
    THEN /\ pcs' = addIceCandidate(ps, t.pc, Head(queue), "drain")
         /\ tasks' = [tasks EXCEPT ![i] =
                        [t EXCEPT !.at = "drainIce", !.queue = Tail(queue), !.spliced = taken,
                                  !.did = Append(@, Call("addIceCandidate", Head(queue)))]]
    ELSE /\ pcs' = ps
         /\ tasks' = IF t.kind = "OFFER"
                       THEN [tasks EXCEPT ![i] =
                               [t EXCEPT !.at = "createAnswer", !.queue = <<>>, !.spliced = taken,
                                         !.did = Append(@, Call("createAnswer", Null))]]
                       ELSE Done(i)

\* Mutant of afterSetRemoteDescription: hasRemoteRef is set before the
\* await, so it is set also when setRemoteDescription fails.
afterSetRemoteDescription_marksEarly(i, ok) ==
  LET t == tasks[i] IN
  IF ~ok
    THEN /\ tasks' = Done(i)
         /\ hasRemoteRef' = TRUE
         /\ UNCHANGED <<pcs, pendingIceRef, outbox>>
    ELSE /\ hasRemoteRef' = TRUE
         /\ pendingIceRef' = <<>>
         /\ drainIce([pcs EXCEPT ![t.pc].remote = TRUE,
                                 ![t.pc].sig = IF t.kind = "OFFER" THEN "have-remote-offer"
                                                                   ELSE "stable"],
                     i, pendingIceRef)
         /\ UNCHANGED outbox

\* Mutant of afterSetRemoteDescription: drainIce reads the pending queue
\* without emptying it (slice(0) for splice(0)).
afterSetRemoteDescription_noSplice(i, ok) ==
  LET t == tasks[i] IN
  IF ~ok
    THEN /\ tasks' = Done(i)
         /\ UNCHANGED <<pcs, hasRemoteRef, pendingIceRef, outbox>>
    ELSE /\ hasRemoteRef' = TRUE
         /\ pendingIceRef' = pendingIceRef
         /\ drainIce([pcs EXCEPT ![t.pc].remote = TRUE,
                                 ![t.pc].sig = IF t.kind = "OFFER" THEN "have-remote-offer"
                                                                   ELSE "stable"],
                     i, pendingIceRef)
         /\ UNCHANGED outbox

\* After `await pc.setRemoteDescription(payload.sdp)`: hasRemoteRef is set
\* and drainIce takes the whole pending queue (splice(0)).
afterSetRemoteDescription(i, ok) ==
  LET t == tasks[i] IN
  IF ~ok
    THEN /\ tasks' = Done(i)
         /\ UNCHANGED <<pcs, hasRemoteRef, pendingIceRef, outbox>>
    ELSE /\ hasRemoteRef' = TRUE
         /\ pendingIceRef' = <<>>
         /\ drainIce([pcs EXCEPT ![t.pc].remote = TRUE,
                                 ![t.pc].sig = IF t.kind = "OFFER" THEN "have-remote-offer"
                                                                   ELSE "stable"],
                     i, pendingIceRef)
         /\ UNCHANGED outbox

\* Mutant of afterDrainStep: no try/catch around addIceCandidate, a failure
\* ends the handler.
afterDrainStep_aborts(i, ok) ==
  /\ IF ok
       THEN drainIce(pcs, i, tasks[i].queue)
       ELSE tasks' = Done(i) /\ pcs' = pcs
  /\ UNCHANGED <<hasRemoteRef, pendingIceRef, outbox>>

\* After `await pc.addIceCandidate(candidate)` inside drainIce: a failure
\* is caught and logged, the loop goes on.
afterDrainStep(i, ok) ==
  /\ drainIce(pcs, i, tasks[i].queue)
  /\ UNCHANGED <<hasRemoteRef, pendingIceRef, outbox>>

\* After `await pc.addIceCandidate(payload.candidate)` of the ICE branch.
afterAddIceCandidate(i, ok) ==
  /\ tasks' = Done(i)
  /\ UNCHANGED <<pcs, hasRemoteRef, pendingIceRef, outbox>>

\* After `await pc.createAnswer()` or `await pc.createOffer()`.
afterCreate(i, ok) ==
  /\ tasks' = IF ok
                THEN [tasks EXCEPT ![i].at = "setLocalDescription",
                                   ![i].did = Append(@, Call("setLocalDescription", Null))]
                ELSE Done(i)
  /\ UNCHANGED <<pcs, hasRemoteRef, pendingIceRef, outbox>>

\* Mutant of afterSetLocalDescription: the `if (!peerUsername) return`
\* before the ANSWER is missing.
afterSetLocalDescription_alwaysAnswers(i, ok) ==
  LET t == tasks[i] IN
  /\ tasks' = Done(i)
  /\ UNCHANGED <<hasRemoteRef, pendingIceRef>>
  /\ IF ~ok
       THEN UNCHANGED <<pcs, outbox>>
       ELSE /\ pcs' = [pcs EXCEPT ![t.pc].local = TRUE,
                                   ![t.pc].sig = IF t.kind = "OFFER" THEN "stable"
                                                                     ELSE "have-local-offer"]
            /\ IF t.kind = "OFFER"
                 THEN send(Frame("/webrtc.answer", t.env.callId, t.env.peerUsername, t.pc))
                 ELSE send(Frame("/webrtc.offer", t.env.callId, t.env.peerUsername, t.pc))

\* After `await pc.setLocalDescription(...)`: the ANSWER is sent unless
\* the handler's peerUsername is empty; startOffer sends its OFFER.
afterSetLocalDescription(i, ok) ==
  LET t == tasks[i] IN
  /\ tasks' = Done(i)
  /\ UNCHANGED <<hasRemoteRef, pendingIceRef>>
  /\ IF ~ok
       THEN UNCHANGED <<pcs, outbox>>
       ELSE /\ pcs' = [pcs EXCEPT ![t.pc].local = TRUE,
                                   ![t.pc].sig = IF t.kind = "OFFER" THEN "stable"
                                                                     ELSE "have-local-offer"]
            /\ IF t.kind = "OFFER"
                 THEN IF t.env.peerUsername = ""
                        THEN UNCHANGED outbox
                        ELSE send(Frame("/webrtc.answer", t.env.callId, t.env.peerUsername, t.pc))
                 ELSE send(Frame("/webrtc.offer", t.env.callId, t.env.peerUsername, t.pc))

\* The promise a handler awaits settles.  A promise of a closed connection
\* never settles (the primitive drops the result once closed).
settle(i, ok) ==
  /\ i \in DOMAIN tasks
  /\ pcs[tasks[i].pc].closes = 0
  /\ LET good == ok /\ Legal(tasks[i]) IN
     CASE tasks[i].at = "setRemoteDescription" -> afterSetRemoteDescription(i, good)
       [] tasks[i].at = "drainIce" -> afterDrainStep(i, good)
       [] tasks[i].at = "addIceCandidate" -> afterAddIceCandidate(i, good)
       [] tasks[i].at \in {"createAnswer", "createOffer"} -> afterCreate(i, good)
       [] tasks[i].at = "setLocalDescription" -> afterSetLocalDescription(i, good)
  /\ pcRef' = pcRef
  /\ dcRef' = dcRef
  /\ endsInRow' = 0
  /\ lastSettled' = [kind |-> tasks[i].kind, at |-> tasks[i].at,
                     ok |-> ok /\ Legal(tasks[i])]
  /\ sessions' = sessions
  /\ UNCHANGED <<busVars, formVars, nextCand, endedCalls, events>>

\* A handler awaiting a promise of a closed connection never resumes.
hang(i) ==
  /\ i \in DOMAIN tasks
  /\ pcs[tasks[i].pc].closes > 0
  /\ tasks' = Done(i)
  /\ endsInRow' = 0
  /\ lastSettled' = NoSettle
  /\ sessions' = sessions
  /\ UNCHANGED <<pcRef, dcRef, hasRemoteRef, pendingIceRef, pcs, outbox,
                 busVars, formVars, nextCand, endedCalls, events>>

\* ------------------------------------------------------ specification

Next ==
  \/ connect
  \/ onConnect
  \/ onWebSocketClose
  \/ onStompError
  \/ disconnect
  \/ \E v \in CallIds \cup {""} : editCallId(v)
  \/ \E v \in PeerNames \cup {""} : editPeerUsername(v)
  \/ createCall
  \/ \E ok \in BOOLEAN, id \in CallIds \cup {Absent}, r \in PeerNames \cup {Absent} :
       createCallResponse(ok, id, r)
  \/ accept
  \/ reject
  \/ end
  \/ \E n \in NotifMessages : onCallNotif(n)
  \/ \E m \in SignalMessages : onSignal(m)
  \/ startOffer
  \/ \E p \in 1..MaxPc : ondatachannel(p)
  \/ \E p \in 1..MaxPc : onicecandidate(p)
  \/ \E i \in 1..MaxTasks, ok \in BOOLEAN : settle(i, ok)
  \/ \E i \in 1..MaxTasks : hang(i)

Spec == Init /\ [][Next]_vars

\* The event loop: a promise pending on an open connection is settled in the
\* end, and the handler awaiting it resumes.  Nothing obliges the bus or
\* the user to act.
Fairness == \A i \in 1..MaxTasks : WF_vars(\E ok \in BOOLEAN : settle(i, ok))

FairSpec == Spec /\ Fairness

\* -------------------------------------------------------------- claims

\* The session is torn down: no connection, no channel, nothing buffered.
TornDown == pcRef = Null /\ dcRef = Null /\ ~hasRemoteRef /\ pendingIceRef = <<>>

\* C1: candidates that were buffered are applied in arrival order and before
\* any candidate that arrived after them: in the call log of a connection
\* no drained candidate follows a candidate with a later arrival stamp.
C1_BufferedFirstInOrder ==
  \A p \in DOMAIN pcs : \A j, k \in DOMAIN pcs[p].ice :
    (j < k /\ pcs[p].ice[k].via = "drain") => pcs[p].ice[j].c < pcs[p].ice[k].c

\* C2: addIceCandidate is never called on a connection whose
\* setRemoteDescription has not completed successfully.
C2_NoCandidateBeforeRemote ==
  \A p \in DOMAIN pcs : ~pcs[p].early

\* C2 witness: after a teardown, candidates were applied on the second connection.
C2_Witness ==
  Len(pcs) = 2 /\ pcs[1].closes = 1 /\ pcs[2].ice # <<>>

\* C3: an inbound signal whose callId differs from the active callId changes
\* nothing: no connection is made, no primitive is called, the refs and the
\* pending queue stay, nothing is published.
C3_ForeignSignalIgnored ==
  [][\A m \in SignalMessages :
       (m.callId # callId /\ onSignal(m)) => UNCHANGED <<rtcVars, outbox>>]_vars

\* C4: once a call has ended (end(), CALL_ENDED or CALL_REJECTED), an inbound
\* signal carrying its callId is not processed.
C4_EndedCallIgnored ==
  [][\A m \in SignalMessages :
       (m.callId \in endedCalls /\ onSignal(m)) => UNCHANGED <<rtcVars, outbox>>]_vars

C6_AcceptAfterEndRefused ==
  [][(accept /\ callId \in endedCalls) => UNCHANGED outbox]_vars

\* C7: in a connected tab that knows its peer, the OFFER (at the callee) or
\* ANSWER (at the caller) of the active call is taken up on delivery: its
\* handler starts by applying the remote description, which is what leads
\* to the one ANSWER and to the remote-ready session.
C7_NegotiationTakenUp ==
  [][\A m \in SignalMessages :
       (/\ m.type \in {"OFFER", "ANSWER"}
        /\ m.callId = callId /\ peerUsername # "" /\ connected
        /\ onSignal(m))
         => /\ Len(tasks') = Len(tasks) + 1
            /\ tasks'[Len(tasks')].kind = m.type
            /\ tasks'[Len(tasks')].at = "setRemoteDescription"]_vars

C9_OneCallPerConnection ==
  /\ \A i \in DOMAIN tasks : pcs[tasks[i].pc].cid = tasks[i].env.callId
  /\ \A k \in DOMAIN outbox :
       outbox[k].sdp # Null => pcs[outbox[k].sdp].cid = outbox[k].callId

BusEvent == connect \/ onConnect \/ onWebSocketClose \/ onStompError \/ disconnect

\* C10: connecting, losing the connection and disconnecting leave callId, the
\* connection, the channel, remote-ready and the pending queue as they are,
\* and every new session subscribes both queues.
C10_BusLeavesSession ==
  [][/\ BusEvent => UNCHANGED <<callId, pcRef, dcRef, hasRemoteRef, pendingIceRef, pcs, tasks>>
     /\ onConnect => subs' = {"/user/queue/call-notifications", "/user/queue/webrtc-signals"}]_vars

\* C10 witness: a second session is up, with the connection and the buffered
\* candidates of the call still held.
C10_Witness ==
  /\ sessions = 2 /\ stompRef = "connected"
  /\ subs = {"/user/queue/call-notifications", "/user/queue/webrtc-signals"}
  /\ pcRef # Null /\ pendingIceRef # <<>>

\* C11: no two negotiation operations of a session are in flight at once:
\* while an OFFER or ANSWER handler is suspended on a primitive of an open
\* connection, no handler of a later inbound OFFER, ANSWER or ICE_CANDIDATE
\* is suspended on a primitive of the same connection.
C11_OneOperationInFlight ==
  \A i, j \in DOMAIN tasks :
    (/\ i < j
     /\ tasks[i].pc = tasks[j].pc /\ pcs[tasks[i].pc].closes = 0
     /\ tasks[i].kind \in {"OFFER", "ANSWER"})
      => tasks[j].kind \notin {"OFFER", "ANSWER", "ICE_CANDIDATE"}

IsPrefix(a, b) == Len(a) <= Len(b) /\ \A k \in 1..Len(a) : a[k] = b[k]

\* The primitive calls of a complete OFFER handler that took the queue
\* t.spliced: setRemoteDescription, one addIceCandidate per candidate taken,
\* in the order taken, createAnswer, setLocalDescription.
OfferCalls(t) ==
  <<Call("setRemoteDescription", Null)>>
    \o [k \in 1..Len(t.spliced) |-> Call("addIceCandidate", t.spliced[k])]
    \o <<Call("createAnswer", Null), Call("setLocalDescription", Null)>>

\* C12: an OFFER handler calls setRemoteDescription, then addIceCandidate for
\* every candidate that was buffered when the remote description was set, in
\* order, then createAnswer, then setLocalDescription; at every step its calls
\* so far are a prefix of that sequence, and when it publishes the ANSWER the
\* sequence is complete.
C12_OfferCallOrder ==
  [][\A i \in DOMAIN tasks, ok \in BOOLEAN :
       (tasks[i].kind = "OFFER" /\ settle(i, ok))
         => /\ IsPrefix(tasks[i].did, OfferCalls(tasks[i]))
            /\ outbox' # outbox
                 => /\ tasks[i].did = OfferCalls(tasks[i])
                    /\ outbox'[Len(outbox')].dest = "/webrtc.answer"]_vars

\* C12 witness: an ANSWER has just been published by a handler that had two
\* buffered candidates to apply.
C12_Witness ==
  /\ lastSettled = [kind |-> "OFFER", at |-> "setLocalDescription", ok |-> TRUE]
  /\ outbox # <<>>
  /\ outbox[Len(outbox)].dest = "/webrtc.answer"
  /\ Len(pcs[outbox[Len(outbox)].sdp].ice) >= 2
  /\ \A k \in DOMAIN pcs[outbox[Len(outbox)].sdp].ice :
       pcs[outbox[Len(outbox)].sdp].ice[k].via = "drain"

\* C13: after an inbound CALL_ENDED notification for the active call the
\* session is closed: every connection and channel is closed, the refs are
\* null, remote-ready is false and the pending queue is empty.
C13_CallEndedClosesSession ==
  [][\A n \in NotifMessages :
       (n.type = "CALL_ENDED" /\ n.callId = callId /\ onCallNotif(n))
         => /\ TornDown'
            /\ \A p \in DOMAIN pcs' : pcs'[p].closes > 0 /\ pcs'[p].dc # "open"]_vars

\* C14: a failed addIceCandidate is swallowed.  When the promise of a drain
\* step or of an immediate application rejects, the connection stays open
\* and held, remote-ready stays true, the drain goes on with the next
\* candidate of its queue, and after the last one an OFFER handler goes on
\* to createAnswer.
C14_CandidateFailureSwallowed ==
  [][\A i \in DOMAIN tasks :
       (tasks[i].at \in {"drainIce", "addIceCandidate"} /\ settle(i, FALSE))
         => /\ pcRef' = tasks[i].pc
            /\ pcs'[tasks[i].pc].closes = 0
            /\ hasRemoteRef /\ hasRemoteRef'
            /\ (tasks[i].at = "drainIce" /\ tasks[i].queue # <<>>)
                 => /\ pcs'[tasks[i].pc].ice =
                         Append(pcs[tasks[i].pc].ice,
                                [c |-> Head(tasks[i].queue), via |-> "drain"])
                    /\ Len(tasks') = Len(tasks)
                    /\ tasks'[i].at = "drainIce"
                    /\ tasks'[i].queue = Tail(tasks[i].queue)
            /\ (tasks[i].at = "drainIce" /\ tasks[i].queue = <<>> /\ tasks[i].kind = "OFFER")
                 => Len(tasks') = Len(tasks) /\ tasks'[i].at = "createAnswer"]_vars

\* C14 witness: the first of two buffered candidates has just failed in the
\* drain of an OFFER handler, and the second one was applied all the same.
C14_Witness ==
  /\ lastSettled = [kind |-> "OFFER", at |-> "drainIce", ok |-> FALSE]
  /\ \E i \in DOMAIN tasks :
       /\ tasks[i].kind = "OFFER" /\ tasks[i].at = "drainIce"
       /\ Len(tasks[i].spliced) = 2 /\ tasks[i].queue = <<>>
       /\ Len(pcs[tasks[i].pc].ice) = 2
       /\ hasRemoteRef /\ pcs[tasks[i].pc].closes = 0

C16_AnswerToOfferSender ==
  [][\A i \in DOMAIN tasks, ok \in BOOLEAN :
       (tasks[i].kind = "OFFER" /\ settle(i, ok) /\ outbox' # outbox)
         => /\ outbox'[Len(outbox')].dest = "/webrtc.answer"
            /\ outbox'[Len(outbox')].toUserId = tasks[i].from
            /\ outbox'[Len(outbox')].callId = tasks[i].id]_vars

\* C17: every OFFER startOffer() has published comes from a connection that
\* has a data channel created locally (it was made with isCaller) and on
\* which the offer was set as local description.
C17_OfferHasDataChannel ==
  \A k \in DOMAIN outbox :
    outbox[k].dest = "/webrtc.offer"
      => pcs[outbox[k].sdp].caller /\ pcs[outbox[k].sdp].local

\* The OFFER frames published from connection p.
OffersOf(p) == {k \in DOMAIN outbox : outbox[k].dest = "/webrtc.offer" /\ outbox[k].sdp = p}

\* The startOffer() invocations suspended on connection p.
StartOffersOn(p) == {i \in DOMAIN tasks : tasks[i].kind = "startOffer" /\ tasks[i].pc = p}

\* C18: in one session startOffer() takes effect at most once: for every
\* connection at most one OFFER is published, at most one startOffer() is
\* creating or setting a local offer, and none is once the OFFER is out.
C18_StartOfferOnce ==
  \A p \in DOMAIN pcs :
    Cardinality(OffersOf(p)) + Cardinality(StartOffersOn(p)) <= 1

C20_FilterOnActiveCallId ==
  [][\A m \in SignalMessages :
       onSignal(m) => ((m.callId = callId) <=> (rtcVars' # rtcVars))]_vars

\* C21: at most one connection is unclosed at any time: every connection
\* ever created, other than the one pcRef holds, has been closed.
C21_OneOpenConnection ==
  \A p \in DOMAIN pcs : p # pcRef => pcs[p].closes > 0

\* C21 witness: a second connection is held and open, the first one, left
\* behind by end(), is closed.
C21_Witness ==
  /\ Len(pcs) = 2 /\ pcRef = 2
  /\ pcs[1].closes = 1 /\ pcs[2].closes = 0
  /\ \E k \in DOMAIN outbox : outbox[k].dest = "/call.end"

\* How many times x occurs in sequence s.
Count(s, x) == Cardinality({k \in DOMAIN s : s[k] = x})

\* addIceCandidate calls made with candidate c on connection p.
Applied(p, c) == Cardinality({k \in DOMAIN pcs[p].ice : pcs[p].ice[k].c = c})

\* Places where candidate c waits to be applied: the pending queue, and the
\* rest of the queue of a drain running on an open connection.
Buffered(c) ==
  Count(pendingIceRef, c)
    + Cardinality({i \in DOMAIN tasks :
                     pcs[tasks[i].pc].closes = 0 /\ Count(tasks[i].queue, c) > 0})

\* C22: every accepted inbound candidate is in exactly one of the states
\* buffered, applied, discarded by teardown: it is handed to addIceCandidate
\* at most once and only on the connection it was accepted for, it is not
\* both waiting and applied nor waiting in two places, and when it is neither
\* waiting nor applied its connection has been closed.
C22_CandidateExactlyOnce ==
  \A p \in DOMAIN pcs : \A k \in DOMAIN pcs[p].got :
    LET c == pcs[p].got[k] IN
    /\ Applied(p, c) + Buffered(c) <= 1
    /\ \A q \in DOMAIN pcs : q # p => Applied(q, c) = 0
    /\ Applied(p, c) + Buffered(c) = 0 => pcs[p].closes > 0
    /\ \A i \in DOMAIN tasks : Count(tasks[i].queue, c) <= 1

\* C22 witness: one candidate was buffered and discarded by end(), a later
\* one was applied on the next connection.
C22_Witness ==
  /\ Len(pcs) = 2
  /\ pcs[1].closes = 1 /\ pcs[1].got # <<>> /\ pcs[1].ice = <<>>
  /\ pcs[2].closes = 0 /\ pcs[2].got # <<>> /\ Len(pcs[2].ice) = Len(pcs[2].got)
  /\ pendingIceRef = <<>>

\* Every candidate accepted for a connection that has a remote description
\* has been applied on it, or the connection was torn down.
AllDrained ==
  \A p \in DOMAIN pcs : \A k \in DOMAIN pcs[p].got :
    pcs[p].remote => (Applied(p, pcs[p].got[k]) > 0 \/ pcs[p].closes > 0)

\* C23: under fair scheduling, once a connection has a remote description
\* every candidate buffered for it is eventually applied unless the
\* connection is torn down (being applied and being closed are permanent, so
\* it is enough that all are drained again and again); and while
\* remote-ready is set the pending queue is and stays empty, a later
\* candidate being applied at once.
C23_DrainCompletes ==
  /\ [](hasRemoteRef => pendingIceRef = <<>>)
  /\ []<>AllDrained

\* C23 witness: two buffered candidates were drained after the remote
\* description was set and a third, arriving later, was applied at once;
\* no handler is left and the pending queue is empty.
C23_Witness ==
  \E p \in DOMAIN pcs :
    /\ pcRef = p /\ pcs[p].closes = 0 /\ pcs[p].remote /\ hasRemoteRef
    /\ Len(pcs[p].ice) = 3
    /\ pcs[p].ice[1].via = "drain" /\ pcs[p].ice[2].via = "drain"
    /\ pcs[p].ice[3].via = "direct"
    /\ pendingIceRef = <<>> /\ tasks = <<>>

====
